---- MODULE Spec2Model ----
(***************************************************************************)
(* NASA_AnimationController of src/script.js (lines 204-437): the frame    *)
(* loop driven by requestAnimationFrame, the tween registry and the list   *)
(* of per-frame callbacks.                                                 *)
(*                                                                         *)
(* Units. Timestamps are milliseconds, as requestAnimationFrame passes     *)
(* them. deltaTime, currentTime and duration are seconds in the code; the  *)
(* model keeps them in milliseconds (seconds * 1000) so that they stay     *)
(* integers: min((t - last) / 1000, 0.1) * s  is  Min(t - last, 100) * s.  *)
(* progress = clamp(currentTime / duration, 0, 1) is kept as the numerator *)
(* of a fraction over duration: clamp(currentTime, 0, duration), so that   *)
(* progress >= 1 reads progress >= duration and progress <= 0 is the same. *)
(***************************************************************************)
EXTENDS Integers, Sequences, FiniteSets, TLC

VARIABLES
    animations,          \* this.animations: key -> tween object
    order,               \* iteration (insertion) order of the keys of this.animations
    animationCallbacks,  \* this.animationCallbacks
    isPaused,            \* this.isPaused
    lastTimestamp,       \* this.lastTimestamp
    deltaTime,           \* this.deltaTime
    timeScale,           \* this.timeScale
    animationLoopId,     \* this.animationLoopId
    rafQueue,            \* the browser's list of requested animation frame callbacks
    frameQueue,          \* callbacks of the display refresh in progress, not yet run
    now,                 \* the time: of the latest display refresh, or later
    destroyed,           \* history: destroy() has been called
    pausedAt,            \* history: when the pause in force began, -1 if none is
    handles,             \* history: what addAnimationCallback returned for each callback in the list
    registrations,       \* history: the registered keys, by their latest createAnimation
    lastTick             \* history: what the latest run of animate did

vars == <<animations, order, animationCallbacks, isPaused, lastTimestamp, deltaTime,
          timeScale, animationLoopId, rafQueue, frameQueue, now, destroyed, pausedAt,
          handles, registrations, lastTick>>

----------------------------------------------------------------------------
(* Bounds of the model *)

MaxLoops == 2
MaxCallbacks == 3
MaxPlays == 2

(* Program constant: this.maxDelta = 0.1 s, in milliseconds *)
maxDelta == 100

Outcomes == {"ok", "throw", "destroy"}

EmptyMap == [k \in {} |-> FALSE]

Min(x, y) == IF x < y THEN x ELSE y
Max(x, y) == IF x > y THEN x ELSE y
Abs(x) == IF x < 0 THEN -x ELSE x
Range(s) == {s[i] : i \in DOMAIN s}
Without(s, x) == SelectSeq(s, LAMBDA y : y # x)
RemoveAt(s, i) == [j \in 1..(Len(s) - 1) |-> IF j < i THEN s[j] ELSE s[j + 1]]

(* Fractions <<numerator, denominator>> in lowest terms, denominator > 0,  *)
(* for the values that are not whole numbers of milliseconds: the eased    *)
(* progress and the interpolated value.                                    *)
RECURSIVE GCD(_, _)
GCD(x, y) == IF y = 0 THEN x ELSE GCD(y, x % y)

Frac(n, d) == LET g == GCD(Abs(n), d) IN <<n \div g, d \div g>>

(* JavaScript values of the fields from, to and currentValue: a number, an *)
(* array of numbers, or undefined.                                         *)
Number(n) == [type |-> "number", value |-> n]
Array(seq) == [type |-> "object", value |-> seq]
Undefined == [type |-> "undefined", value |-> <<>>]

(* Array.prototype.splice(index, 1), index counted from 1 here *)
Splice(arr, index) == IF index \in 1..Len(arr) THEN RemoveAt(arr, index) ELSE arr

----------------------------------------------------------------------------
(* requestAnimationFrame / cancelAnimationFrame *)

(* A handle is an opaque number: a fresh one is any number that is neither *)
(* pending nor still held in this.animationLoopId.                         *)
FreshHandle(s) ==
    CHOOSE h \in 1..(Len(s.rafQueue) + Len(s.frameQueue) + 2) :
        h \notin (Range(s.rafQueue) \cup Range(s.frameQueue) \cup {s.animationLoopId})

(* Since only the identity of a handle matters, every step ends by naming  *)
(* the pending handles 1, 2, ... in the order in which they will run, and  *)
(* by naming 0 a handle that is no longer pending.                         *)
Position(q, h) == IF h \in Range(q) THEN CHOOSE i \in DOMAIN q : q[i] = h ELSE 0

Renamed(s) ==
    LET q == s.frameQueue \o s.rafQueue
    IN  [s EXCEPT !.frameQueue = [i \in 1..Len(s.frameQueue) |-> i],
                  !.rafQueue = [i \in 1..Len(s.rafQueue) |-> Len(s.frameQueue) + i],
                  !.animationLoopId = Position(q, s.animationLoopId)]

requestAnimationFrame(s, h) == [s EXCEPT !.rafQueue = Append(@, h)]

cancelAnimationFrame(s, h) ==
    [s EXCEPT !.rafQueue = Without(@, h), !.frameQueue = Without(@, h)]

----------------------------------------------------------------------------
(* The controller as one record, for the steps that run in sequence inside *)
(* one call.                                                               *)

This ==
    [animations |-> animations, order |-> order,
     animationCallbacks |-> animationCallbacks, isPaused |-> isPaused,
     lastTimestamp |-> lastTimestamp, deltaTime |-> deltaTime,
     timeScale |-> timeScale, animationLoopId |-> animationLoopId,
     rafQueue |-> rafQueue, frameQueue |-> frameQueue,
     destroyed |-> destroyed, pausedAt |-> pausedAt,
     handles |-> handles, registrations |-> registrations]

Store(s) ==
    /\ animations' = s.animations
    /\ order' = s.order
    /\ animationCallbacks' = s.animationCallbacks
    /\ isPaused' = s.isPaused
    /\ lastTimestamp' = s.lastTimestamp
    /\ deltaTime' = s.deltaTime
    /\ timeScale' = s.timeScale
    /\ animationLoopId' = Renamed(s).animationLoopId
    /\ rafQueue' = Renamed(s).rafQueue
    /\ frameQueue' = Renamed(s).frameQueue
    /\ destroyed' = s.destroyed
    /\ pausedAt' = s.pausedAt
    /\ handles' = [c \in Range(s.animationCallbacks) |-> s.handles[c]]
    /\ registrations' = s.registrations

NoTick ==
    [ran |-> FALSE, paused |-> FALSE, afterDestroy |-> FALSE, gap |-> 0, dt |-> 0,
     scale |-> 0, eligible |-> {}, advanced |-> {}, moved |-> 0, updThrew |-> FALSE,
     cmpThrew |-> FALSE, updDestroyed |-> FALSE, cbAtStart |-> <<>>, cbPhase |-> FALSE,
     cbInvoked |-> <<>>, cbThrew |-> {}, cbDestroyed |-> FALSE,
     cbAfter |-> <<>>, prevThrew |-> {}, prevAfter |-> <<>>, physics |-> FALSE,
     rescheduled |-> FALSE, registered |-> {}, since |-> 0, pausedFrom |-> -1,
     resumedAt |-> -1, trace |-> <<>>, cbDelta |-> 0, seeded |-> FALSE,
     prevRan |-> FALSE, handle |-> -1, owners |-> {}, removed |-> {}]

(* The trace of a run of animate lists, in the order in which they happen, *)
(* the calls of user callbacks, a destroy() made by one of them, the       *)
(* physics update and the request of the next run.                         *)
Event(kind, name) == <<kind, name>>

----------------------------------------------------------------------------
(* initAnimationLoop: the first request of a new chain of animate calls *)
initAnimationLoop(s) ==
    LET h == FreshHandle(s)
    IN  [requestAnimationFrame(s, h) EXCEPT !.animationLoopId = h]

(* getEasingFunction: easingFunctions[name] || easingFunctions.easeInOutQuad. *)
(* easingFunctions is an object literal, so the lookup finds its six own   *)
(* keys and the properties it inherits from Object.prototype, all of them  *)
(* truthy; any other name gives easeInOutQuad. A function is named here by *)
(* the property that holds it.                                             *)
EasingNames ==
    {"easeInOutQuad", "easeInOutCubic", "easeOutElastic", "easeOutBounce",
     "easeLaunch", "easeOrbit"}

InheritedNames ==
    {"constructor", "hasOwnProperty", "isPrototypeOf", "propertyIsEnumerable",
     "toLocaleString", "toString", "valueOf", "__proto__", "__defineGetter__",
     "__defineSetter__", "__lookupGetter__", "__lookupSetter__"}

getEasingFunction(name) ==
    IF name \in EasingNames \cup InheritedNames THEN name ELSE "easeInOutQuad"

(* The number NaN, written as the fraction 0/0 *)
NaN == <<0, 0>>

(* The easing functions at t = p / d, 0 <= p <= d, as fractions:           *)
(*   easeInOutQuad, easeOrbit  t < 0.5 ? 2tt : 1 - (-2t + 2)^2 / 2         *)
(*   easeInOutCubic            t < 0.5 ? 4ttt : 1 - (-2t + 2)^3 / 2        *)
(*   easeLaunch                1 - (1 - t)^3                               *)
(*   easeOutBounce             n1 = 7.5625 = 121/16, d1 = 2.75 = 11/4      *)
(* easeOutElastic is 0 at 0 and 1 at 1; between them its value is not a    *)
(* fraction, so no tween of the model runs it.                             *)
(* Of the inherited functions, called as animation.easing(progress):       *)
(*   constructor      Object(t), a Number object that computes as t        *)
(*   toString, toLocaleString   the string "[object Object]": NaN in the   *)
(*                    product of line 326                                  *)
(*   valueOf          the tween object itself: NaN in the product          *)
(*   hasOwnProperty, isPrototypeOf, propertyIsEnumerable   false: 0 in the *)
(*                    product                                              *)
(* The others are not run by any tween of the model.                       *)
(* Variant: 2tt on the whole interval *)
easeInOutQuad_FirstHalfOnly(p, d) == Frac(2 * p * p, d * d)

easeInOutQuad(p, d) ==
    IF 2 * p < d THEN Frac(2 * p * p, d * d)
    ELSE Frac(2 * d * d - (2 * d - 2 * p) * (2 * d - 2 * p), 2 * d * d)

easeInOutCubic(p, d) ==
    IF 2 * p < d THEN Frac(4 * p * p * p, d * d * d)
    ELSE Frac(2 * d * d * d - (2 * d - 2 * p) * (2 * d - 2 * p) * (2 * d - 2 * p),
              2 * d * d * d)

easeOutBounce(p, d) ==
    IF 11 * p < 4 * d THEN Frac(121 * p * p, 16 * d * d)
    ELSE IF 11 * p < 8 * d THEN
        Frac((11 * p - 6 * d) * (11 * p - 6 * d) + 12 * d * d, 16 * d * d)
    ELSE IF 11 * p < 10 * d THEN
        Frac((11 * p - 9 * d) * (11 * p - 9 * d) + 15 * d * d, 16 * d * d)
    ELSE
        Frac((22 * p - 21 * d) * (22 * p - 21 * d) + 63 * d * d, 64 * d * d)

easeLaunch(p, d) == Frac(d * d * d - (d - p) * (d - p) * (d - p), d * d * d)

Ease(easing, p, d) ==
    CASE easing \in {"easeInOutQuad", "easeOrbit"} -> easeInOutQuad(p, d)
      [] easing = "easeInOutCubic" -> easeInOutCubic(p, d)
      [] easing = "easeOutBounce" -> easeOutBounce(p, d)
      [] easing = "easeLaunch" -> easeLaunch(p, d)
      [] easing = "easeOutElastic" /\ p = 0 -> Frac(0, 1)
      [] easing = "easeOutElastic" /\ p = d -> Frac(1, 1)
      [] easing = "constructor" -> Frac(p, d)
      [] easing \in {"toString", "toLocaleString", "valueOf"} -> NaN
      [] easing \in {"hasOwnProperty", "isPrototypeOf", "propertyIsEnumerable"} ->
            Frac(0, 1)

(* createAnimation: ...config first, then the fixed fields over it, so the *)
(* config's yoyo and repeat are replaced by false and 0. A config without  *)
(* easing has easing "". currentValue is not a field until the first       *)
(* update writes it. History fields: config, the config as passed;         *)
(* touched, the page has written the object's yoyo and repeat fields       *)
(* since; plays, starts and completions, the number of playAnimation,      *)
(* onStart and onComplete calls on this object; sincePlay, the onComplete  *)
(* calls since the latest playAnimation; replayed, the latest              *)
(* playAnimation found the tween playing, with time already run; eased,   *)
(* the easedProgress of the latest onUpdate call, <<>> before the first.   *)
NewAnimation(config) ==
    [duration |-> config.duration,
     from |-> config.from, to |-> config.to,
     currentValue |-> Undefined,
     currentTime |-> 0, progress |-> 0,
     isPlaying |-> FALSE, isComplete |-> FALSE,
     reverse |-> FALSE, yoyo |-> FALSE,
     repeat |-> 0, repeatCount |-> 0,
     easing |-> getEasingFunction(IF config.easing = "" THEN "easeInOutQuad"
                                  ELSE config.easing),
     config |-> config, touched |-> FALSE, plays |-> 0, starts |-> 0,
     completions |-> 0, sincePlay |-> 0, replayed |-> FALSE, eased |-> <<>>]

MapSet(s, key, animation) ==
    [s EXCEPT
        !.animations = [k \in (DOMAIN s.animations) \cup {key} |->
                            IF k = key THEN animation ELSE s.animations[k]],
        !.order = IF key \in DOMAIN s.animations THEN @ ELSE Append(@, key)]

createAnimation(s, key, config) ==
    [MapSet(s, key, NewAnimation(config)) EXCEPT
        !.registrations = Append(Without(@, key), key)]

(* Variant: playAnimation restarts the tween from time 0 *)
playAnimation_Restarts(s, key) ==
    IF key \notin DOMAIN s.animations THEN s
    ELSE [s EXCEPT !.animations[key].isPlaying = TRUE,
                   !.animations[key].isComplete = FALSE,
                   !.animations[key].currentTime = 0,
                   !.animations[key].progress = 0,
                   !.animations[key].starts = @ + 1,
                   !.animations[key].replayed =
                       s.animations[key].isPlaying /\ s.animations[key].currentTime # 0,
                   !.animations[key].plays = @ + 1,
                   !.animations[key].sincePlay = 0]

(* Variant: playAnimation leaves isComplete as it is *)
playAnimation_KeepsComplete(s, key) ==
    IF key \notin DOMAIN s.animations THEN s
    ELSE [s EXCEPT !.animations[key].isPlaying = TRUE,
                   !.animations[key].starts = @ + 1,
                   !.animations[key].replayed =
                       s.animations[key].isPlaying /\ s.animations[key].currentTime # 0,
                   !.animations[key].plays = @ + 1,
                   !.animations[key].sincePlay = 0]

playAnimation(s, key) ==
    IF key \notin DOMAIN s.animations THEN s
    ELSE [s EXCEPT !.animations[key].isPlaying = TRUE,
                   !.animations[key].isComplete = FALSE,
                   !.animations[key].starts = @ + 1,
                   !.animations[key].replayed =
                       s.animations[key].isPlaying /\ s.animations[key].currentTime # 0,
                   !.animations[key].plays = @ + 1,
                   !.animations[key].sincePlay = 0]

(* addAnimationCallback returns this.animationCallbacks.length - 1 after   *)
(* the push                                                                *)
addAnimationCallback(s, callback) ==
    [s EXCEPT !.animationCallbacks = Append(@, callback),
              !.handles = [c \in (DOMAIN @) \cup {callback} |->
                              IF c = callback THEN Len(s.animationCallbacks) ELSE @[c]]]

(* removeAnimationCallback: the handle is the index addAnimationCallback   *)
(* returned (the list's length before the push, counted from 0)            *)
removeAnimationCallback(s, index) ==
    [s EXCEPT !.animationCallbacks = Splice(@, index + 1)]

(* rafIds is never filled, so its forEach cancels nothing *)
pauseAllAnimations(s) == [s EXCEPT !.isPaused = TRUE]

resumeAllAnimations(s) == initAnimationLoop([s EXCEPT !.isPaused = FALSE])

destroy(s) ==
    [cancelAnimationFrame(s, s.animationLoopId) EXCEPT
        !.animations = EmptyMap,
        !.order = <<>>,
        !.animationCallbacks = <<>>,
        !.registrations = <<>>,
        !.destroyed = TRUE]

----------------------------------------------------------------------------
(* updateAnimations *)

(* Variant: the upper clamp Math.min(1, ...) left out *)
Clamp01_NoUpper(currentTime, duration) == Max(0, currentTime)

Clamp01(currentTime, duration) == Max(0, Min(duration, currentTime))

(* lines 316-319: the time-advance step and the clamped progress *)
Advance(a, dt) ==
    LET t == a.currentTime + dt * (IF a.reverse THEN -1 ELSE 1)
    IN  [a EXCEPT !.currentTime = t, !.progress = Clamp01(t, a.duration)]

(* lines 322-331: the eased progress and the interpolated value; a tween   *)
(* whose from and to are neither both numbers nor both arrays keeps the    *)
(* currentValue it had.                                                    *)
(* Variant: to * easedProgress in place of (to - from) * easedProgress *)
Lerp_FromNotSubtracted(from, to, e) ==
    IF e = NaN THEN NaN ELSE Frac(from * e[2] + to * e[1], e[2])

Lerp(from, to, e) ==
    IF e = NaN THEN NaN ELSE Frac(from * e[2] + (to - from) * e[1], e[2])

Interpolate(a, e) ==
    [a EXCEPT
        !.eased = e,
        !.currentValue =
            IF a.from.type = "number" /\ a.to.type = "number"
            THEN Number(Lerp(a.from.value, a.to.value, e))
            ELSE IF a.from.type = "object" /\ a.to.type = "object"
            THEN Array([i \in DOMAIN a.from.value |->
                           Lerp(a.from.value[i], a.to.value[i], e)])
            ELSE @]

Evaluate(a) == Interpolate(a, Ease(a.easing, a.progress, a.duration))

Terminal(a) ==
    \/ ~a.reverse /\ a.progress >= a.duration
    \/ a.reverse /\ a.progress <= 0

Completes(a) == Terminal(a) /\ ~a.yoyo /\ ~(a.repeat > a.repeatCount)

(* Variant: completion calls onComplete without setting isComplete and     *)
(* clearing isPlaying                                                      *)
Finish_StaysPlaying(a) ==
    IF ~Terminal(a) THEN a
    ELSE IF a.yoyo THEN
        [a EXCEPT !.reverse = ~a.reverse,
                  !.currentTime = IF ~a.reverse THEN a.duration ELSE 0]
    ELSE IF a.repeat > a.repeatCount THEN
        [a EXCEPT !.repeatCount = @ + 1, !.currentTime = 0, !.progress = 0]
    ELSE
        [a EXCEPT !.completions = @ + 1, !.sincePlay = @ + 1]

(* Variant: the repeat test written >= instead of > *)
Finish_RepeatsOnceMore(a) ==
    IF ~Terminal(a) THEN a
    ELSE IF a.yoyo THEN
        [a EXCEPT !.reverse = ~a.reverse,
                  !.currentTime = IF ~a.reverse THEN a.duration ELSE 0]
    ELSE IF a.repeat >= a.repeatCount THEN
        [a EXCEPT !.repeatCount = @ + 1, !.currentTime = 0, !.progress = 0]
    ELSE
        [a EXCEPT !.isComplete = TRUE, !.isPlaying = FALSE,
                  !.completions = @ + 1, !.sincePlay = @ + 1]

(* lines 337-352, the state change of the terminal check *)
Finish(a) ==
    IF ~Terminal(a) THEN a
    ELSE IF a.yoyo THEN
        [a EXCEPT !.reverse = ~a.reverse,
                  !.currentTime = IF ~a.reverse THEN a.duration ELSE 0]
    ELSE IF a.repeat > a.repeatCount THEN
        [a EXCEPT !.repeatCount = @ + 1, !.currentTime = 0, !.progress = 0]
    ELSE
        [a EXCEPT !.isComplete = TRUE, !.isPlaying = FALSE,
                  !.completions = @ + 1, !.sincePlay = @ + 1]

(* Variant: no tween is skipped *)
Skipped_Never(a) == FALSE

(* Variant: the guard of line 313 without its isPlaying test *)
Skipped_OnlyComplete(a) == a.isComplete

Skipped(a) == ~a.isPlaying \/ a.isComplete

(* line 350: animation.onComplete(), which may throw *)
OnComplete(s, key, a1, beh) ==
    IF ~Completes(a1) THEN s
    ELSE IF beh.onComplete[key] = "throw"
    THEN [s EXCEPT !.log.cmpThrew = TRUE,
                   !.log.trace = Append(@, Event("onComplete", key))]
    ELSE [s EXCEPT !.log.trace = Append(@, Event("onComplete", key))]

(* Variant: a tween that completes is deleted from the map *)
OnUpdate_RemovesCompleted(s, key, a1, beh) ==
    CASE beh.onUpdate[key] = "throw" ->
            [s EXCEPT !.log.updThrew = TRUE,
                      !.log.trace = Append(@, Event("onUpdate", key))]
      [] beh.onUpdate[key] = "destroy" ->
            OnComplete([destroy(s) EXCEPT
                           !.log.updDestroyed = TRUE,
                           !.log.trace = @ \o <<Event("onUpdate", key),
                                                 Event("destroy", "")>>],
                       key, a1, beh)
      [] OTHER ->
            OnComplete([s EXCEPT
                           !.animations =
                               IF Completes(a1)
                               THEN [k \in (DOMAIN @) \ {key} |-> @[k]]
                               ELSE [@ EXCEPT ![key] = Finish(a1)],
                           !.order = IF Completes(a1) THEN Without(@, key) ELSE @,
                           !.log.trace = Append(@, Event("onUpdate", key))],
                       key, a1, beh)

(* lines 334-352 for the tween under key, advanced to a1 and stored. beh   *)
(* gives what each user callback does when called: return, throw, or call  *)
(* destroy() and return. Nothing catches a throw; destroy() empties the    *)
(* map, and the terminal check of the entry being visited then acts on an  *)
(* object that is no longer in the map.                                    *)
OnUpdate(s, key, a1, beh) ==
    CASE beh.onUpdate[key] = "throw" ->
            [s EXCEPT !.log.updThrew = TRUE,
                      !.log.trace = Append(@, Event("onUpdate", key))]
      [] beh.onUpdate[key] = "destroy" ->
            OnComplete([destroy(s) EXCEPT
                           !.log.updDestroyed = TRUE,
                           !.log.trace = @ \o <<Event("onUpdate", key),
                                                 Event("destroy", "")>>],
                       key, a1, beh)
      [] OTHER ->
            OnComplete([s EXCEPT !.animations[key] = Finish(a1),
                                 !.log.trace = Append(@, Event("onUpdate", key))],
                       key, a1, beh)

(* lines 316-331: the tween a under key becomes a1 *)
Moved(s, key, a, a1) ==
    [s EXCEPT !.animations[key] = a1,
              !.log.advanced = @ \cup {key},
              !.log.moved = Max(@, Abs(a1.currentTime - a.currentTime))]

(* The callback of the forEach for one entry that is not skipped *)
Visit(s, key, a, a1, beh) == OnUpdate(Moved(s, key, a, a1), key, a1, beh)

(* An exception of onUpdate or onComplete leaves updateAnimations and animate *)
Thrown(s) == s.log.updThrew \/ s.log.cmpThrew

(* The forEach over the map from its i-th entry: a throw ends it, and      *)
(* after destroy() it finds no further entry.                              *)
RECURSIVE UpdateFrom(_, _, _, _)
UpdateFrom(s, i, dt, beh) ==
    IF i > Len(s.order) \/ Thrown(s) THEN s
    ELSE IF Skipped(s.animations[s.order[i]]) THEN UpdateFrom(s, i + 1, dt, beh)
    ELSE UpdateFrom(Visit(s, s.order[i], s.animations[s.order[i]],
                          Evaluate(Advance(s.animations[s.order[i]], dt)), beh),
                    i + 1, dt, beh)

updateAnimations(s, dt, beh) == UpdateFrom(s, 1, dt, beh)

----------------------------------------------------------------------------
(* executeAnimationCallbacks *)

(* Array.prototype.forEach visits the indexes below the length the array   *)
(* had at the start, skipping those no longer present. iter is the array   *)
(* being walked; it is this.animationCallbacks (aliased) until destroy()   *)
(* assigns a new empty array to the field, after which the splice of a     *)
(* later throw acts on the new array and the walk goes on over the old.    *)
RECURSIVE ExecFrom(_, _, _, _, _, _)
ExecFrom(s, iter, aliased, k, len, beh) ==
    LET arr == IF aliased THEN s.animationCallbacks ELSE iter
    IN  IF k > len \/ k > Len(arr) THEN s
        ELSE
            LET callback == arr[k]
                s1 == [s EXCEPT !.log.cbInvoked = Append(@, callback),
                                !.log.trace = Append(@, Event("callback", callback))]
            IN  CASE beh.callback[callback] = "throw" ->
                        ExecFrom([s1 EXCEPT !.animationCallbacks = Splice(@, k),
                                            !.log.cbThrew = @ \cup {callback}],
                                 iter, aliased, k + 1, len, beh)
                  [] beh.callback[callback] = "destroy" ->
                        ExecFrom([destroy(s1) EXCEPT
                                     !.log.cbDestroyed = TRUE,
                                     !.log.trace = Append(@, Event("destroy", ""))],
                                 arr, FALSE, k + 1, len, beh)
                  [] OTHER -> ExecFrom(s1, iter, aliased, k + 1, len, beh)

executeAnimationCallbacks(s, beh) ==
    ExecFrom([s EXCEPT !.log.cbPhase = TRUE, !.log.cbDelta = s.deltaTime],
             s.animationCallbacks, TRUE, 1,
             Len(s.animationCallbacks), beh)

(* updatePhysics reads and writes the DOM only *)
updatePhysics(s) ==
    [s EXCEPT !.log.physics = TRUE, !.log.trace = Append(@, Event("physics", ""))]

----------------------------------------------------------------------------
(* animate(timestamp), lines 220-243 *)

(* Variant: the raw delta used without Math.min(..., this.maxDelta) *)
ClampDelta_Unclamped(raw, scale) == raw * scale

ClampDelta(raw, scale) == Min(raw, maxDelta) * scale

Playing(s) == {k \in DOMAIN s.animations : ~Skipped(s.animations[k])}

StartLog(s, timestamp, prev) ==
    [NoTick EXCEPT !.ran = TRUE, !.paused = s.isPaused,
                   !.afterDestroy = s.destroyed,
                   !.gap = timestamp - s.lastTimestamp,
                   !.since = s.lastTimestamp,
                   !.pausedFrom = IF ~s.isPaused /\ ~prev.ran THEN prev.pausedFrom
                                  ELSE -1,
                   !.resumedAt = IF ~s.isPaused /\ ~prev.ran THEN prev.resumedAt
                                 ELSE -1,
                   !.dt = s.deltaTime, !.scale = s.timeScale,
                   !.eligible = Playing(s),
                   !.registered = DOMAIN s.animations,
                   !.cbAtStart = s.animationCallbacks,
                   !.prevThrew = prev.cbThrew, !.prevAfter = prev.cbAfter,
                   !.prevRan = prev.ran]

(* Variant: the body of animate runs whatever isPaused says *)
Suspended_Never(s) == FALSE

(* line 226: if (!this.isPaused) *)
Suspended(s) == s.isPaused

(* lines 221-224: the seeding of lastTimestamp and the delta, with the log *)
(* of the run opened                                                       *)
Seeded(s, timestamp) ==
    IF s.lastTimestamp = 0 THEN [s EXCEPT !.lastTimestamp = timestamp] ELSE s

Timed(s, timestamp) ==
    [s EXCEPT !.deltaTime = ClampDelta(timestamp - s.lastTimestamp, s.timeScale)]

Logged(s, timestamp, prev) ==
    [s @@ [log |-> NoTick] EXCEPT !.log = StartLog(s, timestamp, prev)]

(* Variant: the physics update before the per-frame callbacks *)
Frame_PhysicsFirst(updated, beh) ==
    IF Thrown(updated) THEN updated
    ELSE executeAnimationCallbacks(updatePhysics(updated), beh)

(* lines 229-236, after updateAnimations: its exception skips the rest *)
Frame(updated, beh) ==
    IF Thrown(updated) THEN updated
    ELSE updatePhysics(executeAnimationCallbacks(updated, beh))

(* lines 226-237 *)
Body(s, beh) ==
    IF Suspended(s) THEN s ELSE Frame(updateAnimations(s, s.deltaTime, beh), beh)

(* lines 239-242, which an exception of the body skips *)
Reschedule(s, timestamp) ==
    IF Thrown(s) THEN [s EXCEPT !.log.cbAfter = s.animationCallbacks]
    ELSE [requestAnimationFrame(s, FreshHandle(s)) EXCEPT
             !.lastTimestamp = timestamp,
             !.animationLoopId = FreshHandle(s),
             !.log.rescheduled = TRUE,
             !.log.trace = Append(@, Event("schedule", "")),
             !.log.cbAfter = s.animationCallbacks]

animate(s0, timestamp, beh, prev) ==
    Reschedule(Body(Logged(Timed(Seeded(s0, timestamp), timestamp), timestamp, prev),
                    beh),
               timestamp)

----------------------------------------------------------------------------
(* State after new NASA_AnimationController() *)

Init ==
    /\ animations = EmptyMap
    /\ order = <<>>
    /\ animationCallbacks = <<>>
    /\ isPaused = FALSE
    /\ lastTimestamp = 0
    /\ deltaTime = 0
    /\ timeScale = 1
    /\ animationLoopId = 1
    /\ rafQueue = <<1>>
    /\ frameQueue = <<>>
    /\ now = 0
    /\ destroyed = FALSE
    /\ pausedAt = -1
    /\ handles = EmptyMap
    /\ registrations = <<>>
    /\ lastTick = NoTick

(* The page's script runs between display refreshes, never between two     *)
(* animation frame callbacks of one refresh, and it makes no call on a     *)
(* controller it has destroyed (script.js:2567 destroys it on shutdown).   *)
Idle == frameQueue = <<>>

(* lastTick describes the run of animate that has just ended: a call of   *)
(* the page resets it, to log if the call has something to record.         *)
CallLog(s, log) == Idle /\ ~destroyed /\ Store(s) /\ lastTick' = log /\ UNCHANGED now

Call(s) == CallLog(s, NoTick)

(* Time passes with no display refresh: between two frames, or while the   *)
(* tab is hidden and the browser runs no animation frame callbacks.        *)
Wait(time) ==
    /\ Idle
    /\ time > now
    /\ now' = time
    /\ UNCHANGED <<animations, order, animationCallbacks, isPaused, lastTimestamp,
                   deltaTime, timeScale, animationLoopId, rafQueue, frameQueue,
                   destroyed, pausedAt, handles, registrations, lastTick>>

(* The browser starts a display refresh: every callback requested so far   *)
(* is run with the same timestamp; requests made meanwhile wait for the    *)
(* next refresh.                                                           *)
Refresh(timestamp) ==
    /\ Idle
    /\ rafQueue # <<>>
    /\ timestamp >= now
    /\ now' = timestamp
    /\ Store([This EXCEPT !.frameQueue = rafQueue, !.rafQueue = <<>>])
    /\ UNCHANGED lastTick

(* seeded: the run found lastTimestamp unset (0) and seeded it *)
StoreTick(s) == Store(s) /\ lastTick' = [s.log EXCEPT !.seeded = (lastTimestamp = 0)]

(* The browser runs the next callback of the refresh: one call of animate *)
Animate(beh) ==
    /\ frameQueue # <<>>
    /\ StoreTick(animate([This EXCEPT !.frameQueue = Tail(@)], now, beh, lastTick))
    /\ UNCHANGED now

CreateAnimation(key, config) == Call(createAnimation(This, key, config))

PlayAnimation(key) ==
    /\ key \in DOMAIN animations
    /\ animations[key].plays < MaxPlays
    /\ Call(playAnimation(This, key))

(* playAnimation with a key that is not registered *)
PlayAbsent(key) ==
    /\ key \notin DOMAIN animations
    /\ Call(playAnimation(This, key))

AddAnimationCallback(callback) ==
    /\ Len(animationCallbacks) < MaxCallbacks
    /\ callback \notin Range(animationCallbacks)
    /\ Call(addAnimationCallback(This, callback))

(* A removeAnimationCallback call records its handle, the callbacks in the *)
(* list for which addAnimationCallback returned it, and those it removed.  *)
Removal(s, index) ==
    [NoTick EXCEPT !.handle = index,
                   !.owners = {c \in DOMAIN handles : handles[c] = index},
                   !.removed = Range(animationCallbacks) \ Range(s.animationCallbacks)]

RemoveAnimationCallback(index) ==
    CallLog(removeAnimationCallback(This, index),
            Removal(removeAnimationCallback(This, index), index))

PauseAllAnimations ==
    Call([pauseAllAnimations(This) EXCEPT !.pausedAt = IF isPaused THEN @ ELSE now])

(* A resumeAllAnimations call that ends a pause records, for the next run  *)
(* of animate, when the pause began and when it ended.                     *)
ResumeAllAnimations ==
    /\ Len(rafQueue) < MaxLoops
    /\ CallLog([resumeAllAnimations(This) EXCEPT !.pausedAt = -1],
               [NoTick EXCEPT !.pausedFrom = pausedAt,
                              !.resumedAt = IF isPaused THEN now ELSE -1])

Destroy == Call(destroy(This))

(* The page writes the public field timeScale *)
SetTimeScale(scale) == Call([This EXCEPT !.timeScale = scale])

(* The page writes the yoyo and repeat fields of a tween object, which     *)
(* createAnimation leaves at false and 0 whatever the config says; it      *)
(* writes no repeat below the repeats the tween has already made           *)
SetPolicy(key, yoyo, repeat) ==
    /\ key \in DOMAIN animations
    /\ repeat >= animations[key].repeatCount
    /\ Call([This EXCEPT !.animations[key].yoyo = yoyo,
                         !.animations[key].repeat = repeat,
                         !.animations[key].touched = TRUE])

(* The page calls the public method updateAnimations(deltaTime) itself,    *)
(* feeding the registry a delta of its choice                              *)
UpdateAnimations(dt, beh) ==
    Call(updateAnimations(This @@ [log |-> NoTick], dt, beh))

(* What the user callbacks do in one run of animate. A callback that is    *)
(* not called in the run does nothing in it.                               *)
Behaviours(keys, ids, onUpdates, callbacks) ==
    {beh \in [onUpdate : [keys -> onUpdates], onComplete : [keys -> {"ok", "throw"}],
              callback : [ids -> callbacks]] :
        /\ \A k \in keys : k \notin Playing(This) =>
                beh.onUpdate[k] = "ok" /\ beh.onComplete[k] = "ok"
        /\ \A c \in ids : c \notin Range(animationCallbacks) => beh.callback[c] = "ok"}

----------------------------------------------------------------------------
(* The scheduler: every operation of the controller, one tween, two        *)
(* per-frame callbacks. (A tween whose onUpdate throws is left playing     *)
(* with its time advanced and lastTimestamp not updated, so that with      *)
(* resumeAllAnimations its currentTime grows without bound; onUpdate       *)
(* throws in SpecTweens, which has no resumeAllAnimations.)                *)

Stamps == {0, 100, 200}
Configs ==
    [duration : {100}, yoyo : {FALSE}, repeat : {0},
     from : {Number(0)}, to : {Number(1)}, easing : {""}]

Next ==
    \/ \E timestamp \in Stamps : Refresh(timestamp)
    \/ \E beh \in Behaviours({"a"}, {"f", "g"}, {"ok", "destroy"}, Outcomes) : Animate(beh)
    \/ \E config \in Configs : CreateAnimation("a", config)
    \/ PlayAnimation("a")
    \/ PlayAbsent("a")
    \/ \E callback \in {"f", "g"} : AddAnimationCallback(callback)
    \/ \E index \in 0..1 : RemoveAnimationCallback(index)
    \/ PauseAllAnimations
    \/ ResumeAllAnimations
    \/ Destroy

Spec == Init /\ [][Next]_vars

(* The tween registry: two tweens whose callbacks may throw *)
NextTweens ==
    \/ \E timestamp \in Stamps : Refresh(timestamp)
    \/ \E beh \in Behaviours({"a", "b"}, {}, {"ok", "throw"}, {"ok"}) : Animate(beh)
    \/ \E key \in {"a", "b"}, config \in Configs : CreateAnimation(key, config)
    \/ \E key \in {"a", "b"} : PlayAnimation(key)
    \/ PauseAllAnimations

SpecTweens == Init /\ [][NextTweens]_vars

(* The per-frame callbacks: three of them, any of which may throw *)
NextCallbacks ==
    \/ \E timestamp \in Stamps : Refresh(timestamp)
    \/ \E beh \in Behaviours({}, {"f", "g", "h"}, {"ok"}, {"ok", "throw"}) : Animate(beh)
    \/ \E callback \in {"f", "g", "h"} : AddAnimationCallback(callback)
    \/ \E index \in 0..2 : RemoveAnimationCallback(index)

SpecCallbacks == Init /\ [][NextCallbacks]_vars

(* The configurations: a tween of one second made from each configuration  *)
(* and run for more than two seconds                                       *)
ConfigStamps == {100 * i : i \in 0..22}
TweenConfigs ==
    [duration : {1000}, yoyo : BOOLEAN, repeat : {0, 2},
     from : {Number(0)}, to : {Number(1)}, easing : {""}]

NextConfigs ==
    \/ \E timestamp \in ConfigStamps : timestamp <= now + 100 /\ Refresh(timestamp)
    \/ \E beh \in Behaviours({"a"}, {}, {"ok"}, {"ok"}) : Animate(beh)
    \/ \E config \in TweenConfigs : CreateAnimation("a", config)
    \/ PlayAnimation("a")

SpecConfigs == Init /\ [][NextConfigs]_vars

(* The clock: refreshes up to five seconds apart, a time scale the page    *)
(* changes, and a tween whose yoyo and repeat fields the page sets         *)
ClockStamps == {0, 50, 100, 200, 5200, 5300}

NextClock ==
    \/ \E timestamp \in ClockStamps : Refresh(timestamp)
    \/ \E beh \in Behaviours({"a"}, {}, {"ok", "throw"}, {"ok"}) : Animate(beh)
    \/ \E config \in Configs : CreateAnimation("a", config)
    \/ PlayAnimation("a")
    \/ \E scale \in {0, 1, 2} : SetTimeScale(scale)
    \/ \E yoyo \in BOOLEAN, repeat \in {0, 1} : SetPolicy("a", yoyo, repeat)

SpecClock == Init /\ [][NextClock]_vars

(* Pause and resume: time passes between the refreshes, so that a call of  *)
(* the page has a time of its own                                          *)
PauseStamps == {0, 100, 150, 200, 300}

NextPause ==
    \/ \E timestamp \in PauseStamps : Refresh(timestamp)
    \/ \E time \in PauseStamps : Wait(time)
    \/ \E beh \in Behaviours({"a"}, {}, {"ok"}, {"ok"}) : Animate(beh)
    \/ \E config \in Configs : CreateAnimation("a", config)
    \/ PlayAnimation("a")
    \/ PauseAllAnimations
    \/ ResumeAllAnimations

SpecPause == Init /\ [][NextPause]_vars

(* The fade: a tween of one second from 0 to 1, fed deltas by the frame    *)
(* loop and by direct calls of updateAnimations                            *)
FadeStamps == {0, 100}
FadeDeltas == {0, 250, 500}
FadeConfigs ==
    [duration : {1000}, yoyo : {FALSE}, repeat : {0},
     from : {Number(0)}, to : {Number(1)}, easing : {"", "easeInOutQuad"}]

NextFade ==
    \/ \E timestamp \in FadeStamps : Refresh(timestamp)
    \/ \E beh \in Behaviours({"fade"}, {}, {"ok"}, {"ok"}) : Animate(beh)
    \/ \E dt \in FadeDeltas, beh \in Behaviours({"fade"}, {}, {"ok"}, {"ok"}) :
            UpdateAnimations(dt, beh)
    \/ \E config \in FadeConfigs : CreateAnimation("fade", config)
    \/ PlayAnimation("fade")

SpecFade == Init /\ [][NextFade]_vars

(* The easings and the values: tweens between numbers and between arrays,  *)
(* with easing names that are keys of the table, that are not, and that    *)
(* Object.prototype has; the page sets the repeat field                    *)
EasingStamps == {0, 50, 100, 200}
EasingConfigs ==
    {c \in [duration : {100}, yoyo : {FALSE}, repeat : {0},
            from : {Number(2), Array(<<0, 0>>)}, to : {Number(10), Array(<<10, 20>>)},
            easing : {"", "easeLaunch", "linear", "constructor", "toString"}] :
        c.from.type = c.to.type}

NextEasing ==
    \/ \E timestamp \in EasingStamps : Refresh(timestamp)
    \/ \E beh \in Behaviours({"a"}, {}, {"ok"}, {"ok"}) : Animate(beh)
    \/ \E config \in EasingConfigs : CreateAnimation("a", config)
    \/ PlayAnimation("a")
    \/ \E repeat \in {0, 1} : SetPolicy("a", FALSE, repeat)

SpecEasing == Init /\ [][NextEasing]_vars

----------------------------------------------------------------------------
(* Properties *)

Tweens == {animations[k] : k \in DOMAIN animations}
Times(seq, x) == Cardinality({i \in DOMAIN seq : seq[i] = x})

(* C1: when a tween's onUpdate throws in a tick, every tween that was      *)
(* playing at the start of the tick is still advanced in it, the per-frame *)
(* callbacks and the physics update still run, the next tick is scheduled, *)
(* and no tween is deregistered.                                           *)
C1_OnUpdateThrowContained ==
    lastTick.updThrew =>
        /\ lastTick.eligible \subseteq lastTick.advanced
        /\ lastTick.cbPhase
        /\ lastTick.physics
        /\ lastTick.rescheduled
        /\ lastTick.registered \subseteq DOMAIN animations

(* C2: once destroy() has been called, no run of animate starts. *)
C2_NoTickAfterDestroy == ~(lastTick.ran /\ lastTick.afterDestroy)

(* C3: at most one call of animate is pending, counting the calls of the   *)
(* display refresh in progress, so a refresh runs animate at most once.    *)
C3_OneTickPending == Len(rafQueue) + Len(frameQueue) <= 1

(* C4: in a tick that is not paused, every per-frame callback registered   *)
(* at the start of the tick is invoked exactly once, whichever of them     *)
(* throw.                                                                  *)
C4_EveryCallbackInvokedOnce ==
    (lastTick.ran /\ ~lastTick.paused) =>
        \A c \in Range(lastTick.cbAtStart) : Times(lastTick.cbInvoked, c) = 1

(* C5: the callbacks that throw in a tick, and no others, are removed from *)
(* the list; on the following tick none of them is invoked and every other *)
(* registered callback is.                                                 *)
C5_ThrowerRemovedOthersRun ==
    /\ lastTick.ran =>
          lastTick.cbAfter =
              SelectSeq(lastTick.cbAtStart, LAMBDA c : c \notin lastTick.cbThrew)
    /\ (lastTick.ran /\ lastTick.prevThrew # {}
                     /\ lastTick.cbAtStart = lastTick.prevAfter) =>
          /\ Range(lastTick.cbInvoked) \cap lastTick.prevThrew = {}
          /\ Range(lastTick.prevAfter) \subseteq Range(lastTick.cbInvoked)

(* C6: a tween created with config repeat = 2 and no yoyo is complete, and *)
(* its onComplete has fired, only when repeatCount = 2, that is after its  *)
(* third cycle.                                                            *)
C6_RepeatTwoRunsThreeCycles ==
    \A a \in Tweens :
        (a.config.repeat = 2 /\ ~a.config.yoyo /\ ~a.touched) =>
            ((a.isComplete \/ a.completions > 0) => a.repeatCount = 2)

(* C7: a tween created with config yoyo = true, repeat = 0 and a duration  *)
(* of one second never is complete and its onComplete is never invoked.    *)
C7_YoyoNeverCompletes ==
    \A a \in Tweens :
        (a.config.yoyo /\ a.config.repeat = 0 /\ a.config.duration = 1000
                       /\ ~a.touched) =>
            (~a.isComplete /\ a.completions = 0)

(* C8, as claimed: onComplete is invoked at most once on a registered      *)
(* tween, whatever playAnimation calls and ticks occur.                    *)
C8_OnCompleteAtMostOnce == \A a \in Tweens : a.completions <= 1

(* C8, amended: onComplete is invoked at most once after each              *)
(* playAnimation call on the tween (so never more often than playAnimation *)
(* has been called on it), and only a complete, stopped tween has had it   *)
(* invoked since its latest playAnimation.                                 *)
C8_OnCompleteOncePerPlay ==
    \A a \in Tweens :
        /\ a.sincePlay <= 1
        /\ a.completions <= a.plays
        /\ a.sincePlay = 1 => (a.isComplete /\ ~a.isPlaying)

C8_Witness == \E a \in Tweens : a.plays = 2 /\ a.completions = 2

(* C9: every registered tween with duration > 0 has 0 <= progress <= 1     *)
(* (progress is kept as a numerator over duration).                        *)
C9_ProgressInUnitInterval ==
    \A a \in Tweens : a.duration > 0 => (0 <= a.progress /\ a.progress <= a.duration)

C9_Witness ==
    /\ lastTick.ran /\ lastTick.gap >= 5000 /\ lastTick.scale = 2
    /\ \E a \in Tweens : a.currentTime > a.duration /\ a.progress = a.duration

(* C10: in every tick deltaTime <= maxDelta * timeScale, and no tween's    *)
(* currentTime moves by more than that in the tick's time-advance step.    *)
C10_DeltaClamped ==
    lastTick.ran =>
        /\ lastTick.dt <= maxDelta * lastTick.scale
        /\ lastTick.moved <= maxDelta * lastTick.scale
        /\ deltaTime = lastTick.dt

C10_Witness ==
    /\ lastTick.ran /\ lastTick.gap = 5000 /\ lastTick.scale = 2
    /\ lastTick.dt = 200 /\ lastTick.moved = 200 /\ lastTick.advanced # {}

(* C11: time spent paused is not counted: the first run of animate that    *)
(* advances tweens after a resumeAllAnimations call that ended a pause (a  *)
(* pause that lasted some time) measures its delta from a lastTimestamp    *)
(* seeded at or after the time of that call.                               *)
C11_PausedTimeNotCounted ==
    (/\ lastTick.ran /\ lastTick.advanced # {}
     /\ 0 <= lastTick.pausedFrom /\ lastTick.pausedFrom < lastTick.resumedAt) =>
        lastTick.since >= lastTick.resumedAt

(* C12: pauseAllAnimations cancels the pending call of animate: while      *)
(* isPaused holds, no call of animate is pending and none has run.         *)
C12_PauseCancelsTick ==
    isPaused => (rafQueue = <<>> /\ frameQueue = <<>> /\ ~lastTick.ran)

(* C13: a run of animate that finds isPaused set changes no tween, neither *)
(* the registry nor the list of per-frame callbacks, invokes no tween      *)
(* callback and no per-frame callback, and runs no physics update.         *)
C13_PausedTickDoesNothing ==
    [][(isPaused /\ frameQueue # <<>>) =>
           /\ animations' = animations
           /\ order' = order
           /\ animationCallbacks' = animationCallbacks
           /\ lastTick'.ran /\ lastTick'.paused
           /\ lastTick'.advanced = {}
           /\ ~lastTick'.updThrew /\ ~lastTick'.cmpThrew
           /\ ~lastTick'.cbPhase /\ lastTick'.cbInvoked = <<>>
           /\ ~lastTick'.physics]_vars

C13_Witness ==
    /\ isPaused /\ lastTick.ran /\ lastTick.paused /\ lastTick.gap > 0
    /\ lastTick.eligible # {} /\ lastTick.cbAtStart # <<>>

(* C14: until destroy() is called a call of animate is always pending,     *)
(* whatever the tween callbacks and the per-frame callbacks throw.         *)
C14_TickAlwaysPending == ~destroyed => (rafQueue # <<>> \/ frameQueue # <<>>)

(* C15: playAnimation on a tween that is playing leaves its currentTime,   *)
(* progress, reverse and repeatCount as they are.                          *)
C15_ReplayKeepsTiming ==
    [][\A k \in DOMAIN animations :
           (/\ k \in DOMAIN animations'
            /\ animations[k].isPlaying
            /\ animations'[k].plays = animations[k].plays + 1) =>
               /\ animations'[k].currentTime = animations[k].currentTime
               /\ animations'[k].progress = animations[k].progress
               /\ animations'[k].reverse = animations[k].reverse
               /\ animations'[k].repeatCount = animations[k].repeatCount]_vars

C15_Witness ==
    \E a \in Tweens : a.replayed /\ a.isPlaying /\ a.plays = 2 /\ a.currentTime > 0

(* C16: a tween from 0 to 1 of one second with easeInOutQuad, no yoyo and  *)
(* repeat 0, played once: it is complete, stopped and its onComplete has   *)
(* been invoked (once) exactly when the deltas applied to it add up to its *)
(* duration or more; once updated, its progress is 0 at time 0, and at     *)
(* time 0.25, 0.5, 0.75 and 1 s its progress is that and the eased         *)
(* progress is 1/8, 1/2, 7/8 and 1, which is also its currentValue.        *)
C16_FadeCompletesAtDuration ==
    \A a \in Tweens :
        (a.plays <= 1) =>
            /\ a.isComplete <=> (a.currentTime >= a.duration)
            /\ a.isPlaying <=> (a.plays = 1 /\ ~a.isComplete)
            /\ a.completions = IF a.isComplete THEN 1 ELSE 0
            /\ a.eased # <<>> =>
                  /\ a.currentTime = 0 => a.progress = 0 /\ a.eased = <<0, 1>>
                  /\ a.currentTime = 250 => a.progress = 250 /\ a.eased = <<1, 8>>
                  /\ a.currentTime = 500 => a.progress = 500 /\ a.eased = <<1, 2>>
                  /\ a.currentTime = 750 => a.progress = 750 /\ a.eased = <<7, 8>>
                  /\ a.currentTime >= 1000 => a.progress = 1000 /\ a.eased = <<1, 1>>
                  /\ a.currentValue = Number(a.eased)

C16_Witness ==
    \E a \in Tweens :
        /\ a.plays = 1 /\ a.currentTime = 1000 /\ a.progress = 1000
        /\ a.isComplete /\ ~a.isPlaying /\ a.completions = 1
        /\ a.eased = <<1, 1>>

(* C17: no registered tween is both complete and playing. *)
C17_NeverCompleteAndPlaying == \A a \in Tweens : ~(a.isComplete /\ a.isPlaying)

C17_Witness ==
    /\ \E a \in Tweens : a.plays = 2 /\ a.completions = 1 /\ a.isPlaying /\ ~a.isComplete
    /\ Len(rafQueue) = 2

(* C18: every registered tween has 0 <= repeatCount <= repeat, and the     *)
(* repeatCount of a tween (one that the step does not replace by a newly   *)
(* created one) changes only in a run of animate, by exactly 1 upwards,    *)
(* when the tween has yoyo false and reaches its terminal bound in it.     *)
C18_RepeatCountBounded ==
    /\ [](\A a \in Tweens : 0 <= a.repeatCount /\ a.repeatCount <= a.repeat)
    /\ [][\A k \in (DOMAIN animations) \cap (DOMAIN animations') :
              (/\ animations'[k].repeatCount # animations[k].repeatCount
               /\ animations'[k] # NewAnimation(animations'[k].config)) =>
                  /\ frameQueue # <<>>
                  /\ animations'[k].repeatCount = animations[k].repeatCount + 1
                  /\ ~animations[k].yoyo
                  /\ Terminal(Advance(animations[k], deltaTime'))]_vars

C18_Witness ==
    /\ lastTick.ran
    /\ \E a \in Tweens : a.repeat = 1 /\ a.repeatCount = 1 /\ a.currentTime = 0

(* C19: createAnimation with a key that is registered is rejected and      *)
(* leaves the tween as it is, so that no call of the page (a step that is  *)
(* not a run of animate) stops a playing tween or changes its currentTime  *)
(* or progress.                                                            *)
C19_DuplicateKeyRejected ==
    [][\A k \in (DOMAIN animations) \cap (DOMAIN animations') :
           (frameQueue = <<>> /\ animations[k].isPlaying) =>
               /\ animations'[k].isPlaying
               /\ animations'[k].currentTime = animations[k].currentTime
               /\ animations'[k].progress = animations[k].progress]_vars

(* C20: a tween that has never been played is as createAnimation made it:  *)
(* no run of animate has changed a field of it and none of its callbacks   *)
(* has been invoked; and onStart has been invoked once for each            *)
(* playAnimation call on the tween.                                        *)
C20_UnplayedTweenInert ==
    \A a \in Tweens :
        /\ a.starts = a.plays
        /\ a.plays = 0 => a = NewAnimation(a.config)

C20_Witness ==
    /\ lastTick.ran /\ lastTick.moved > 0
    /\ \E a \in Tweens : a.plays = 0
    /\ \E a \in Tweens : a.plays = 2 /\ a.starts = 2

(* C21: the set of registered keys changes only by createAnimation, which  *)
(* adds one key, and by destroy(), which empties the registry; a run of    *)
(* animate in which destroy() is not called removes no key, and a tween    *)
(* whose onComplete it invokes is registered afterwards, with isComplete.  *)
C21_CompletionKeepsKey ==
    [][/\ DOMAIN animations' # DOMAIN animations =>
              \/ /\ frameQueue = <<>> /\ ~destroyed'
                 /\ DOMAIN animations \subseteq DOMAIN animations'
                 /\ Cardinality(DOMAIN animations' \ DOMAIN animations) = 1
              \/ /\ ~destroyed /\ destroyed'
                 /\ animations' = EmptyMap
       /\ (frameQueue # <<>> /\ ~destroyed') =>
              \A k \in DOMAIN animations :
                  /\ k \in DOMAIN animations'
                  /\ Event("onComplete", k) \in Range(lastTick'.trace) =>
                         animations'[k].isComplete]_vars

C21_Witness ==
    /\ lastTick.ran /\ ~destroyed
    /\ \E k \in DOMAIN animations :
           /\ Event("onComplete", k) \in Range(lastTick.trace)
           /\ animations[k].isComplete

(* C22: an easing name that is not one of the six named curves, and a      *)
(* config without easing name, give the tween the easeInOutQuad curve.     *)
C22_UnknownEasingIsQuad ==
    \A a \in Tweens :
        a.config.easing \notin EasingNames => a.easing = "easeInOutQuad"

(* C23: removeAnimationCallback(h) removes the callback for which          *)
(* addAnimationCallback returned h and no other, and two callbacks in the  *)
(* list have different handles.                                            *)
C23_HandleRemovesItsCallback ==
    /\ lastTick.handle >= 0 => lastTick.removed = lastTick.owners
    /\ \A c1, c2 \in DOMAIN handles : c1 # c2 => handles[c1] # handles[c2]

(* C24: the tick that seeds lastTimestamp invokes no tween callback, and   *)
(* the tick that follows a tick does not seed again: it takes its delta    *)
(* from the timestamp of the tick before.                                  *)
C24_FirstTickOnlySeeds ==
    (lastTick.ran /\ lastTick.seeded) =>
        /\ \A k \in lastTick.registered :
               Event("onUpdate", k) \notin Range(lastTick.trace)
        /\ ~lastTick.prevRan

(* C25: in a tick that is not paused the tween callbacks (onUpdate,        *)
(* onComplete) all come before any per-frame callback, the per-frame       *)
(* callbacks all before the physics update, and the request of the next    *)
(* tick after the three phases; the per-frame callbacks receive the        *)
(* deltaTime by which the tweens were advanced.                            *)
C25_PhasesInOrder ==
    (lastTick.ran /\ ~lastTick.paused) =>
        /\ \A i, j \in DOMAIN lastTick.trace :
               i < j =>
                   /\ lastTick.trace[j][1] \in {"onUpdate", "onComplete"} =>
                          lastTick.trace[i][1] \notin {"callback", "physics", "schedule"}
                   /\ lastTick.trace[j][1] = "callback" =>
                          lastTick.trace[i][1] \notin {"physics", "schedule"}
                   /\ lastTick.trace[j][1] = "physics" =>
                          lastTick.trace[i][1] # "schedule"
        /\ lastTick.rescheduled =>
               /\ lastTick.cbPhase /\ lastTick.physics
               /\ lastTick.trace[Len(lastTick.trace)] = Event("schedule", "")
        /\ lastTick.cbPhase => lastTick.cbDelta = lastTick.dt

C25_Witness ==
    /\ lastTick.ran /\ ~lastTick.paused /\ lastTick.dt > 0
    /\ {Event("onUpdate", "a"), Event("onComplete", "a"), Event("callback", "f"),
        Event("callback", "g"), Event("physics", ""), Event("schedule", "")}
           \subseteq Range(lastTick.trace)

(* C26: within a tick the tween callbacks (onUpdate, onComplete) of two    *)
(* tweens are invoked in the order of the keys' latest createAnimation     *)
(* calls.                                                                  *)
C26_AdvancedInRegistrationOrder ==
    (lastTick.ran /\ ~destroyed) =>
        \A i, j \in DOMAIN lastTick.trace :
            (/\ i < j
             /\ lastTick.trace[i][1] \in {"onUpdate", "onComplete"}
             /\ lastTick.trace[j][1] \in {"onUpdate", "onComplete"}
             /\ lastTick.trace[i][2] # lastTick.trace[j][2]) =>
                Position(registrations, lastTick.trace[i][2])
                    < Position(registrations, lastTick.trace[j][2])

(* C27: a run of animate that brings a playing tween with yoyo true to its *)
(* terminal bound flips reverse and sets currentTime to duration if the    *)
(* new direction is reverse and to 0 if it is forward; no run makes such a *)
(* tween stop or complete, increments its repeatCount or invokes its       *)
(* onComplete.                                                             *)
C27_YoyoFlipsAtBound ==
    [][\A k \in (DOMAIN animations) \cap (DOMAIN animations') :
           (/\ frameQueue # <<>> /\ ~isPaused
            /\ animations[k].yoyo /\ ~Skipped(animations[k])) =>
               /\ animations'[k].isPlaying /\ ~animations'[k].isComplete
               /\ animations'[k].repeatCount = animations[k].repeatCount
               /\ animations'[k].completions = animations[k].completions
               /\ Terminal(Advance(animations[k], deltaTime')) =>
                      /\ animations'[k].reverse = ~animations[k].reverse
                      /\ animations'[k].currentTime =
                             IF animations'[k].reverse THEN animations[k].duration
                             ELSE 0]_vars

(* The equation v = from + (to - from) * e of lines 326 and 329 between    *)
(* fractions v and e, multiplied out; NaN on one side is NaN on the other. *)
Interpolates(v, from, to, e) ==
    /\ v[2] = 0 <=> e[2] = 0
    /\ v[1] * e[2] = v[2] * (from * e[2] + (to - from) * e[1])

(* C28, as claimed: after a tick that advances a tween, its currentValue   *)
(* is from + (to - from) * easing(progress) for the progress it has then,  *)
(* element by element for sequences, and has the shape of from and to.     *)
C28_ValueFollowsProgress ==
    lastTick.ran =>
        \A a \in {animations[k] : k \in lastTick.advanced \cap DOMAIN animations} :
            /\ a.currentValue.type = a.from.type
            /\ a.from.type = "number" =>
                   Interpolates(a.currentValue.value, a.from.value, a.to.value,
                                Ease(a.easing, a.progress, a.duration))
            /\ a.from.type = "object" =>
                   /\ DOMAIN a.currentValue.value = DOMAIN a.from.value
                   /\ \A i \in DOMAIN a.from.value :
                          Interpolates(a.currentValue.value[i], a.from.value[i],
                                       a.to.value[i],
                                       Ease(a.easing, a.progress, a.duration))

(* C28, amended: after a tick that advances a tween, its currentValue is   *)
(* from + (to - from) * easedProgress for the eased progress computed in   *)
(* the tick's advance step (the one passed to onUpdate), element by        *)
(* element for sequences, with the shape of from and to; that eased        *)
(* progress is easing(progress) of the progress the tween has then, but    *)
(* in a tick that restarts the tween for a repeat, which resets progress   *)
(* to 0 and leaves currentValue at the value of the bound reached. From    *)
(* [0,0] to [10,20] an eased progress of 1/2 gives [5,10].                 *)
C28_ValueFollowsEasedProgress ==
    lastTick.ran =>
        \A a \in {animations[k] : k \in lastTick.advanced \cap DOMAIN animations} :
            /\ a.currentValue.type = a.from.type
            /\ a.from.type = "number" =>
                   Interpolates(a.currentValue.value, a.from.value, a.to.value, a.eased)
            /\ a.from.type = "object" =>
                   /\ DOMAIN a.currentValue.value = DOMAIN a.from.value
                   /\ \A i \in DOMAIN a.from.value :
                          Interpolates(a.currentValue.value[i], a.from.value[i],
                                       a.to.value[i], a.eased)
            /\ \/ a.eased = Ease(a.easing, a.progress, a.duration)
               \/ /\ a.repeatCount > 0 /\ a.progress = 0 /\ a.currentTime = 0
                  /\ a.eased = Ease(a.easing, a.duration, a.duration)
            /\ (a.from = Array(<<0, 0>>) /\ a.to = Array(<<10, 20>>)
                                        /\ a.eased = <<1, 2>>) =>
                   a.currentValue = Array(<<(<<5, 1>>), (<<10, 1>>)>>)

C28_Witness ==
    /\ lastTick.ran /\ lastTick.advanced = {"a"} /\ "a" \in DOMAIN animations
    /\ animations["a"].from = Array(<<0, 0>>)
    /\ animations["a"].progress * 2 = animations["a"].duration
    /\ animations["a"].eased = <<1, 2>>
    /\ animations["a"].currentValue = Array(<<(<<5, 1>>), (<<10, 1>>)>>)

(* C29: a run of animate leaves every field of a tween that is complete    *)
(* when it starts as it is, and invokes none of its callbacks.             *)
C29_CompleteTweenUntouched ==
    [][\A k \in (DOMAIN animations) \cap (DOMAIN animations') :
           (frameQueue # <<>> /\ animations[k].isComplete) =>
               /\ animations'[k] = animations[k]
               /\ Event("onUpdate", k) \notin Range(lastTick'.trace)
               /\ Event("onComplete", k) \notin Range(lastTick'.trace)]_vars

C29_Witness ==
    /\ lastTick.ran /\ ~lastTick.paused /\ lastTick.dt > 0
    /\ \E k \in lastTick.registered \cap DOMAIN animations :
           /\ k \notin lastTick.eligible
           /\ animations[k].isComplete /\ animations[k].completions = 1

(* C30: once destroy() has been called the registry and the list of        *)
(* per-frame callbacks are empty, and no tween callback and no per-frame   *)
(* callback is invoked: none later in the run of animate in which a        *)
(* callback called destroy(), and none in a later run.                     *)
C30_NothingInvokedAfterDestroy ==
    /\ destroyed => (animations = EmptyMap /\ animationCallbacks = <<>>)
    /\ \A i, j \in DOMAIN lastTick.trace :
           (i < j /\ lastTick.trace[i][1] = "destroy") =>
               lastTick.trace[j][1] \notin {"onUpdate", "onComplete", "callback"}
    /\ (lastTick.ran /\ lastTick.afterDestroy) =>
           \A i \in DOMAIN lastTick.trace :
               lastTick.trace[i][1] \notin {"onUpdate", "onComplete", "callback"}

====
